---- MODULE Spec2Model ----
(***************************************************************************)
(* The message service: POST /api/v1/messages and                          *)
(* GET /api/v1/rooms/{room_id}/messages over one "messages" table.         *)
(*                                                                         *)
(* A request runs in a slot (one coroutine with its own database session). *)
(* Every await on the database is one step, so the steps of concurrent     *)
(* requests interleave exactly where the event loop can switch.            *)
(***************************************************************************)
EXTENDS Integers, Sequences, FiniteSets, TLC

VARIABLES
    table,      \* the committed rows of "messages", in insertion order
    clock,      \* the database's now(), in its own resolution
    req,        \* per slot: the request being served and its response
    returned,   \* history: ids of the messages whose create has answered 201
    payloads,   \* the request bodies the clients of this run send
    queries,    \* the limit/offset query strings the clients of this run send
    scan        \* a client paging through one room, page after page

vars == <<table, clock, req, returned, payloads, queries, scan>>

---------------------------------------------------------------------------
(* Bounds of the model *)

NumSlots == 2
MaxMsgs == 2
MaxClock == 2
MaxReads == 1
MaxScanMsgs == 3

Slots == 1..NumSlots

---------------------------------------------------------------------------
(* Program constants *)

RoomIdMinLength == 1
RoomIdMaxLength == 100
SenderMinLength == 1
SenderMaxLength == 100
ContentMaxLength == 5000
LimitMin == 1
LimitMax == 100
OffsetMin == 0
LimitDefault == 20
OffsetDefault == 0
HTTP_200_OK == 200
HTTP_201_CREATED == 201
HTTP_404_NOT_FOUND == 404
HTTP_422_UNPROCESSABLE == 422
HTTP_500_INTERNAL_SERVER_ERROR == 500

---------------------------------------------------------------------------
(* JSON values of a request body.  A string is kept as its character and   *)
(* its length (the character repeated), which is all the service reads.    *)

JMissing == [t |-> "missing", ch |-> "", n |-> 0]
JNumber == [t |-> "number", ch |-> "", n |-> 0]
JStr(c, len) == [t |-> "string", ch |-> (IF len = 0 THEN "" ELSE c), n |-> len]
EmptyStr == JStr("", 0)

Min(a, b) == IF a <= b THEN a ELSE b

---------------------------------------------------------------------------
(* schemas/message.py *)

\* One str field of MessageCreate: required (...), a str, min_length, max_length.
StrFieldError(v, minLength, maxLength) ==
    IF v.t = "missing" THEN "missing"
    ELSE IF v.t # "string" THEN "string_type"
    ELSE IF v.n < minLength THEN "string_too_short"
    ELSE IF v.n > maxLength THEN "string_too_long"
    ELSE "ok"

RoomIdError(v) == StrFieldError(v, RoomIdMinLength, RoomIdMaxLength)

SenderError(v) == StrFieldError(v, SenderMinLength, SenderMaxLength)

\* content given the lower bound of the other two fields.
ContentErrorNonEmpty(v) == StrFieldError(v, 1, ContentMaxLength)

\* content has max_length only: no lower bound is checked.
ContentError(v) == StrFieldError(v, 0, ContentMaxLength)

\* The errors pydantic collects for a body: one per offending field.
MessageCreateErrors(data) ==
    {e \in { [loc |-> "room_id", type |-> RoomIdError(data.room_id)],
             [loc |-> "sender", type |-> SenderError(data.sender)],
             [loc |-> "content", type |-> ContentError(data.content)] } :
        e.type # "ok"}

\* MessageRead.model_validate(message): the five attributes of the ORM object.
MessageRead(m) ==
    [id |-> m.id, room_id |-> m.room_id, sender |-> m.sender,
     content |-> m.content, created_at |-> m.created_at]

---------------------------------------------------------------------------
(* api/messages.py: the query parameters of the read *)

\* A query parameter as the client sends it: given with a value, or left out.
Given(v) == [given |-> TRUE, v |-> v]
Omitted == [given |-> FALSE, v |-> 0]

\* limit validated against its lower bound only.
QueryErrorsNoUpperBound(limit, offset) ==
    {e \in { [loc |-> "limit", type |-> IF limit < LimitMin THEN "greater_than_equal"
                                        ELSE "ok"],
             [loc |-> "offset", type |-> IF offset < OffsetMin THEN "greater_than_equal"
                                         ELSE "ok"] } :
        e.type # "ok"}

\* Query(default=...): the value the endpoint receives for a parameter.
ParamValue(p, default) == IF p.given THEN p.v ELSE default

QueryErrors(limit, offset) ==
    {e \in { [loc |-> "limit", type |-> IF limit < LimitMin THEN "greater_than_equal"
                                        ELSE IF limit > LimitMax THEN "less_than_equal"
                                        ELSE "ok"],
             [loc |-> "offset", type |-> IF offset < OffsetMin THEN "greater_than_equal"
                                         ELSE "ok"] } :
        e.type # "ok"}

\* A body that fails validation is let through to the endpoint all the same.
BodyAlwaysAccepted(errs) == TRUE

\* data: MessageCreate: the endpoint runs only with a body that passed validation.
BodyAccepted(errs) == errs = {}

\* limit, offset: Query(...): the endpoint runs only with valid parameters.
QueryAccepted(errs) == errs = {}

\* Not found whenever the room is empty, whatever the offset.
NotFoundAtAnyOffset(total, offset) == total = 0

\* "if total == 0 and offset == 0": the room has never had a message.
NotFound(total, offset) == total = 0 /\ offset = 0

---------------------------------------------------------------------------
(* models/message.py and dal/messages.py *)

NoMessage == [id |-> 0, room_id |-> EmptyStr, sender |-> EmptyStr,
              content |-> EmptyStr, created_at |-> 0]

\* Message(room_id=..., sender=..., content=...): id and created_at not yet set.
Message(data) ==
    [id |-> 0, room_id |-> data.room_id, sender |-> data.sender,
     content |-> data.content, created_at |-> 0]

\* The integer primary key the table gives a new row.
\* The largest id handed out again.
NextIdReused(rows) ==
    IF Len(rows) = 0 THEN 1
    ELSE CHOOSE k \in {rows[i].id : i \in 1..Len(rows)} :
            \A j \in 1..Len(rows) : rows[j].id <= k

NextId(rows) ==
    IF Len(rows) = 0 THEN 1
    ELSE 1 + (CHOOSE k \in {rows[i].id : i \in 1..Len(rows)} :
                 \A j \in 1..Len(rows) : rows[j].id <= k)

\* The new row written over the last one.
InsertRowOverLast(rows, m, now) ==
    LET row == [id |-> Len(rows) + 1, room_id |-> m.room_id, sender |-> m.sender,
                content |-> m.content, created_at |-> now]
    IN IF Len(rows) = 0 THEN <<row>> ELSE [rows EXCEPT ![Len(rows)] = row]

\* INSERT ... ; COMMIT: id from the primary key, created_at from now().
InsertRow(rows, m, now) ==
    Append(rows, [id |-> NextId(rows), room_id |-> m.room_id, sender |-> m.sender,
                  content |-> m.content, created_at |-> now])

\* The room's rows as a reader lagging one insert behind sees them.
RoomRowsStale(rows, room_id) ==
    SelectSeq(SubSeq(rows, 1, Len(rows) - 1), LAMBDA r : r.room_id = room_id)

\* Every row, whatever its room.
RoomRowsAnyRoom(rows, room_id) == rows

\* WHERE Message.room_id == room_id
RoomRows(rows, room_id) == SelectSeq(rows, LAMBDA r : r.room_id = room_id)

\* The count taken over the whole table, the WHERE clause forgotten.
CountAllRooms(rows, room_id) == Len(rows)

\* select(func.count()).select_from(Message).where(...): scalar_one()
CountQuery(rows, room_id) == Len(RoomRows(rows, room_id))

\* .order_by(Message.created_at.asc()): every arrangement of the rows that is
\* non-decreasing in created_at.  The query names no second key, so rows with
\* the same created_at come in whatever order the database produces them.
OrderByCreatedAt(rs) ==
    LET n == Len(rs)
        perms == {p \in [1..n -> 1..n] :
                    /\ \A i, j \in 1..n : i # j => p[i] # p[j]
                    /\ \A i, j \in 1..n :
                         i < j => rs[p[i]].created_at <= rs[p[j]].created_at}
    IN {[i \in 1..n |-> rs[p[i]]] : p \in perms}

\* An offset past the end clamped to the last row.
LimitOffsetClamped(rs, limit, offset) ==
    LET from == IF Len(rs) > 0 /\ offset >= Len(rs) THEN Len(rs) - 1 ELSE offset
    IN SubSeq(rs, from + 1, Min(Len(rs), from + limit))

\* .limit(limit).offset(offset)
LimitOffset(rs, limit, offset) ==
    SubSeq(rs, offset + 1, Min(Len(rs), offset + limit))

\* The results the page query can return.
PageQuery(rows, room_id, limit, offset) ==
    {LimitOffset(ord, limit, offset) : ord \in OrderByCreatedAt(RoomRows(rows, room_id))}

\* The attributes loaded from the first row of the table.
RowByIdFirstRow(rows, id) == IF Len(rows) = 0 THEN NoMessage ELSE rows[1]

\* db.refresh(message): the attributes are loaded from the row of that id.
RowById(rows, id) ==
    LET hit == SelectSeq(rows, LAMBDA r : r.id = id)
    IN IF Len(hit) = 0 THEN NoMessage ELSE hit[1]

---------------------------------------------------------------------------
(* State *)

\* History: how many rows of the room the table holds when a query runs.
RoomSize(rows, room_id) ==
    Cardinality({k \in 1..Len(rows) : rows[k].room_id = room_id})

\* str(e) of the SQLAlchemyError a store operation raises.
StorageErrors == {"OperationalError", "InterfaceError"}

\* One line of the structured log: level, message and the fields passed in
\* extra (keys names the fields present).
LogEntry(level, msg, keys, room_id, message_id, count, total, error) ==
    [level |-> level, msg |-> msg, keys |-> keys, room_id |-> room_id,
     message_id |-> message_id, count |-> count, total |-> total, error |-> error]

\* logger.info("Message created", extra={"message_id": ..., "room_id": ...})
CreatedLog(m) ==
    LogEntry("INFO", "Message created", {"message_id", "room_id"},
             m.room_id, m.id, 0, 0, "")

\* logger.error("Database error creating message", extra={"error": str(e)})
CreateErrorLog(r, err) ==
    LogEntry("ERROR", "Database error creating message", {"error"},
             JMissing, 0, 0, 0, err)

\* logger.info("Retrieved room messages", extra={"room_id", "count", "total"})
RetrievedLog(room_id, messages, total) ==
    LogEntry("INFO", "Retrieved room messages", {"room_id", "count", "total"},
             room_id, 0, Len(messages), total, "")

\* logger.error("Database error retrieving messages",
\*              extra={"room_id": room_id, "error": str(e)})
ReadErrorLog(r, err) ==
    LogEntry("ERROR", "Database error retrieving messages", {"room_id", "error"},
             r.room_id, 0, 0, 0, err)

\* A session closed only after a response below 400.
SessionClosedOnSuccess(r) == IF r.status >= 400 THEN "open" ELSE "closed"

\* get_db: async with AsyncSessionLocal() as session: try: yield session
\* finally: await session.close() -- whatever the request ended with.
SessionClosed(r) == "closed"

NoData == [room_id |-> JMissing, sender |-> JMissing, content |-> JMissing]

IdleReq ==
    [kind |-> "none", pc |-> "idle", data |-> NoData, message |-> NoMessage,
     room_id |-> EmptyStr, limit |-> 0, offset |-> 0, total |-> 0, atCount |-> 0, atPage |-> 0,
     mustSee |-> {}, status |-> 0, record |-> NoMessage, items |-> <<>>,
     errors |-> {}, detail |-> "", failed |-> "none",
     limitGiven |-> TRUE, offsetGiven |-> TRUE,
     session |-> "closed", logs |-> <<>>, ops |-> <<>>, found |-> 0]

IdleScan == [pc |-> "idle", room_id |-> EmptyStr, limit |-> 0, offset |-> 0,
             acc |-> <<>>, again |-> <<>>]

\* The bodies the clients send to the whole service.
ServicePayloads ==
    [room_id : {JStr("a", 1), JStr("b", 1)},
     sender : {JStr("u", 1)},
     content : {EmptyStr, JStr("x", 1), JMissing}]
    \cup {[room_id |-> JNumber, sender |-> JStr("u", 1), content |-> JStr("x", 1)],
          [room_id |-> JStr("a", 1), sender |-> EmptyStr, content |-> EmptyStr]}

\* The bodies on both sides of every limit of the validator.
BoundaryPayloads ==
    [room_id : {JMissing, JNumber, EmptyStr, JStr("a", RoomIdMinLength),
                JStr("a", RoomIdMaxLength), JStr("a", RoomIdMaxLength + 1)},
     sender : {JMissing, JNumber, EmptyStr, JStr("u", SenderMinLength),
               JStr("u", SenderMaxLength), JStr("u", SenderMaxLength + 1)},
     content : {JMissing, JNumber, EmptyStr, JStr("x", 1),
                JStr("x", ContentMaxLength), JStr("x", ContentMaxLength + 1)}]

ReadRooms == {JStr("a", 1), JStr("b", 1)}
LimitInputs == {LimitMin - 1, LimitMin, LimitMax, LimitMax + 1}
OffsetInputs == (OffsetMin - 1)..MaxMsgs

\* The query strings sent to the whole service: both parameters given.
ServiceQueries ==
    {[limit |-> Given(l), offset |-> Given(o)] : l \in LimitInputs, o \in OffsetInputs}

\* The query strings with either parameter given or left out.
DefaultQueries ==
    [limit : {Given(l) : l \in LimitInputs} \cup {Omitted},
     offset : {Given(o) : o \in OffsetInputs} \cup {Omitted}]

InFlightCreates ==
    Cardinality({i \in Slots : req[i].kind = "create"
                               /\ req[i].pc \in {"add", "commit"}})

ReadsInFlight == Cardinality({i \in Slots : req[i].kind = "read"})

Init ==
    /\ table = <<>>
    /\ clock = 1
    /\ req = [i \in Slots |-> IdleReq]
    /\ returned = {}
    /\ payloads = ServicePayloads
    /\ queries = ServiceQueries
    /\ scan = IdleScan

---------------------------------------------------------------------------
(* POST /api/v1/messages *)

\* except SQLAlchemyError: logger.error, db.rollback(), HTTPException(500).
\* The rollback discards what the session has not committed.
\* room_id keeps the room the request was for; ops the store calls made.
CreateFailed(r, step, err) ==
    [IdleReq EXCEPT !.kind = "create", !.pc = "done", !.message.id = r.message.id,
                    !.room_id = r.data.room_id,
                    !.status = HTTP_500_INTERNAL_SERVER_ERROR,
                    !.detail = "Failed to create message", !.failed = step,
                    !.session = r.session, !.ops = Append(r.ops, step),
                    !.logs = Append(r.logs, CreateErrorLog(r, err))]

\* The body is validated before the endpoint runs: 422 with the errors, or
\* the endpoint is entered with data.
CreateRequest(i) ==
    /\ req[i].pc = "idle"
    /\ \E data \in payloads :
         LET errs == MessageCreateErrors(data) IN
         IF ~BodyAccepted(errs)
         THEN req' = [req EXCEPT ![i] =
                  [IdleReq EXCEPT !.kind = "create", !.pc = "done", !.data = data,
                                  !.session = "open",
                                  !.status = HTTP_422_UNPROCESSABLE, !.errors = errs]]
         ELSE /\ Len(table) + InFlightCreates < MaxMsgs
              /\ req' = [req EXCEPT ![i] =
                  [IdleReq EXCEPT !.kind = "create", !.pc = "add", !.data = data,
                                  !.session = "open"]]
    /\ UNCHANGED <<table, clock, returned, payloads, queries, scan>>

\* message = Message(...); db.add(message)
CreateAdd(i) ==
    /\ req[i].kind = "create" /\ req[i].pc = "add"
    /\ \/ req' = [req EXCEPT ![i].message = Message(req[i].data), ![i].pc = "commit",
                             ![i].ops = Append(req[i].ops, "add")]
       \/ \E err \in StorageErrors :
            req' = [req EXCEPT ![i] = CreateFailed(req[i], "add", err)]
    /\ UNCHANGED <<table, clock, returned, payloads, queries, scan>>

\* await db.commit(): the INSERT and the COMMIT; the object keeps its new id
\* (expire_on_commit=False).
CreateCommit(i) ==
    /\ req[i].kind = "create" /\ req[i].pc = "commit"
    /\ \/ /\ table' = InsertRow(table, req[i].message, clock)
          /\ req' = [req EXCEPT ![i].message.id = NextId(table), ![i].pc = "refresh",
                                ![i].ops = Append(req[i].ops, "commit")]
       \/ /\ \E err \in StorageErrors :
               req' = [req EXCEPT ![i] = CreateFailed(req[i], "commit", err)]
          /\ UNCHANGED table
    /\ UNCHANGED <<clock, returned, payloads, queries, scan>>

\* await db.refresh(message); return message; the endpoint answers 201 with
\* MessageRead.model_validate(message).
CreateRefresh(i) ==
    /\ req[i].kind = "create" /\ req[i].pc = "refresh"
    /\ \/ LET m == RowById(table, req[i].message.id) IN
          /\ req' = [req EXCEPT ![i].message = m, ![i].pc = "done",
                                ![i].status = HTTP_201_CREATED,
                                ![i].record = MessageRead(m),
                                ![i].ops = Append(req[i].ops, "refresh"),
                                ![i].logs = Append(req[i].logs, CreatedLog(m))]
          /\ returned' = returned \cup {m.id}
       \/ /\ \E err \in StorageErrors :
               req' = [req EXCEPT ![i] = CreateFailed(req[i], "refresh", err)]
          /\ UNCHANGED returned
    /\ UNCHANGED <<table, clock, payloads, queries, scan>>

---------------------------------------------------------------------------
(* GET /api/v1/rooms/{room_id}/messages *)

\* The failure answered as an empty page.
ReadFailedAsEmptyPage(r, step, err) ==
    [IdleReq EXCEPT !.kind = "read", !.pc = "done", !.room_id = r.room_id,
                    !.status = HTTP_200_OK, !.failed = step,
                    !.session = r.session, !.ops = Append(r.ops, step)]

\* except SQLAlchemyError: logger.error, HTTPException(500).
ReadFailed(r, step, err) ==
    [IdleReq EXCEPT !.kind = "read", !.pc = "done", !.room_id = r.room_id,
                    !.status = HTTP_500_INTERNAL_SERVER_ERROR,
                    !.detail = "Failed to retrieve messages", !.failed = step,
                    !.session = r.session, !.ops = Append(r.ops, step),
                    !.logs = Append(r.logs, ReadErrorLog(r, err))]

RoomReturned(room_id) ==
    {id \in returned : RowById(table, id).room_id = room_id}

\* limit and offset are validated before the endpoint runs.
ReadRequest(i) ==
    /\ req[i].pc = "idle"
    /\ ReadsInFlight < MaxReads
    /\ \E room_id \in ReadRooms, q \in queries :
         LET limit == ParamValue(q.limit, LimitDefault)
             offset == ParamValue(q.offset, OffsetDefault)
             errs == QueryErrors(limit, offset)
             r == [IdleReq EXCEPT !.kind = "read", !.limit = limit, !.offset = offset,
                                  !.session = "open",
                                  !.limitGiven = q.limit.given,
                                  !.offsetGiven = q.offset.given]
         IN
         IF ~QueryAccepted(errs)
         THEN req' = [req EXCEPT ![i] =
                  [r EXCEPT !.pc = "done", !.status = HTTP_422_UNPROCESSABLE,
                            !.errors = errs]]
         ELSE req' = [req EXCEPT ![i] =
                  [r EXCEPT !.pc = "count", !.room_id = room_id,
                            !.mustSee = RoomReturned(room_id)]]
    /\ UNCHANGED <<table, clock, returned, payloads, queries, scan>>

\* result = await db.execute(count_query); total = result.scalar_one()
ReadCount(i) ==
    /\ req[i].kind = "read" /\ req[i].pc = "count"
    /\ \/ req' = [req EXCEPT ![i].total = CountQuery(table, req[i].room_id),
                             ![i].atCount = RoomSize(table, req[i].room_id),
                             ![i].ops = Append(req[i].ops, "count"),
                             ![i].pc = "page"]
       \/ \E err \in StorageErrors :
            req' = [req EXCEPT ![i] = ReadFailed(req[i], "count", err)]
    /\ UNCHANGED <<table, clock, returned, payloads, queries, scan>>

\* result = await db.execute(messages_query); then the endpoint decides between
\* 404 and the page.
ReadPage(i) ==
    /\ req[i].kind = "read" /\ req[i].pc = "page"
    /\ \/ \E messages \in PageQuery(table, req[i].room_id, req[i].limit, req[i].offset) :
            LET r == [req[i] EXCEPT !.atPage = RoomSize(table, req[i].room_id),
                                    !.found = Len(messages),
                                    !.ops = Append(req[i].ops, "page")] IN
            IF NotFound(r.total, r.offset)
            THEN req' = [req EXCEPT ![i] =
                     [r EXCEPT !.pc = "done", !.status = HTTP_404_NOT_FOUND,
                               !.detail = "Room not found"]]
            ELSE req' = [req EXCEPT ![i] =
                     [r EXCEPT !.pc = "done", !.status = HTTP_200_OK,
                               !.items = [k \in 1..Len(messages) |->
                                             MessageRead(messages[k])],
                               !.logs = Append(r.logs,
                                   RetrievedLog(r.room_id, messages, r.total))]]
       \/ \E err \in StorageErrors :
            req' = [req EXCEPT ![i] = ReadFailed(req[i], "page", err)]
    /\ UNCHANGED <<table, clock, returned, payloads, queries, scan>>

---------------------------------------------------------------------------
(* Environment *)

\* The response has been sent and get_db has run to its end; the slot serves
\* the next request.
Finish(i) ==
    /\ req[i].pc = "done"
    /\ req' = [req EXCEPT ![i] = [IdleReq EXCEPT !.session = SessionClosed(req[i])]]
    /\ UNCHANGED <<table, clock, returned, payloads, queries, scan>>

\* Time passes at the database.
Tick ==
    /\ clock < MaxClock
    /\ clock' = clock + 1
    /\ UNCHANGED <<table, req, returned, payloads, queries, scan>>

---------------------------------------------------------------------------
(* The validator alone, one request at a time: bodies on both sides of      *)
(* every limit arrive and are rejected, or accepted and left waiting at the *)
(* endpoint's first line.                                                   *)

InitValidate ==
    /\ table = <<>>
    /\ clock = 1
    /\ req = [i \in Slots |-> IdleReq]
    /\ returned = {}
    /\ payloads = BoundaryPayloads
    /\ queries = ServiceQueries
    /\ scan = IdleScan

NextValidate == CreateRequest(1) \/ Finish(1)

SpecValidate == InitValidate /\ [][NextValidate]_vars

---------------------------------------------------------------------------
(* A client pages through a room of a store that no one writes to:          *)
(* Page(room, limit, 0), Page(room, limit, limit), ... until an empty page. *)

ScanData == [room_id : ReadRooms, sender : {JStr("u", 1)}, content : {JStr("x", 1)}]

LastCreatedAt(rows) == IF Len(rows) = 0 THEN 1 ELSE rows[Len(rows)].created_at

\* The stores that n committed creates leave behind.
RECURSIVE StoresAfter(_)
StoresAfter(n) ==
    IF n = 0 THEN {<<>>}
    ELSE {InsertRow(rows, Message(data), now) :
            rows \in StoresAfter(n - 1), data \in ScanData,
            now \in 1..MaxClock} \ {<<>>}

WellTimed(rows) ==
    \A k \in 1..(Len(rows) - 1) : rows[k].created_at <= rows[k + 1].created_at

ScanStores ==
    {rows \in UNION {StoresAfter(n) : n \in 0..MaxScanMsgs} : WellTimed(rows)}

ScanLimits == 1..MaxScanMsgs

InitScan ==
    /\ table \in ScanStores
    /\ clock = LastCreatedAt(table)
    /\ req = [i \in Slots |-> IdleReq]
    /\ returned = {}
    /\ payloads = ServicePayloads
    /\ queries = ServiceQueries
    /\ scan = IdleScan

ScanStart ==
    /\ scan.pc = "idle"
    /\ \E room_id \in ReadRooms, limit \in ScanLimits :
         scan' = [IdleScan EXCEPT !.pc = "paging", !.room_id = room_id, !.limit = limit]
    /\ UNCHANGED <<table, clock, req, returned, payloads, queries>>

\* One page query of the scan; an empty page ends it.
ScanPage ==
    /\ scan.pc = "paging"
    /\ \E messages \in PageQuery(table, scan.room_id, scan.limit, scan.offset) :
         IF messages = <<>>
         THEN scan' = [scan EXCEPT !.pc = "done"]
         ELSE scan' = [scan EXCEPT !.acc = scan.acc \o messages,
                                   !.offset = scan.offset + scan.limit]
    /\ UNCHANGED <<table, clock, req, returned, payloads, queries>>

ScanFinish ==
    /\ scan.pc = "done"
    /\ scan' = IdleScan
    /\ UNCHANGED <<table, clock, req, returned, payloads, queries>>

NextScan == ScanStart \/ ScanPage \/ ScanFinish

SpecScan == InitScan /\ [][NextScan]_vars

---------------------------------------------------------------------------
(* A client asks for the same page twice while nothing is written. *)

RepeatStart ==
    /\ scan.pc = "idle"
    /\ \E room_id \in ReadRooms, limit \in ScanLimits, offset \in 0..MaxScanMsgs :
         scan' = [IdleScan EXCEPT !.pc = "first", !.room_id = room_id,
                                  !.limit = limit, !.offset = offset]
    /\ UNCHANGED <<table, clock, req, returned, payloads, queries>>

RepeatFirst ==
    /\ scan.pc = "first"
    /\ \E messages \in PageQuery(table, scan.room_id, scan.limit, scan.offset) :
         scan' = [scan EXCEPT !.pc = "second", !.acc = messages]
    /\ UNCHANGED <<table, clock, req, returned, payloads, queries>>

RepeatSecond ==
    /\ scan.pc = "second"
    /\ \E messages \in PageQuery(table, scan.room_id, scan.limit, scan.offset) :
         scan' = [scan EXCEPT !.pc = "compared", !.again = messages]
    /\ UNCHANGED <<table, clock, req, returned, payloads, queries>>

RepeatFinish ==
    /\ scan.pc = "compared"
    /\ scan' = IdleScan
    /\ UNCHANGED <<table, clock, req, returned, payloads, queries>>

NextRepeat == RepeatStart \/ RepeatFirst \/ RepeatSecond \/ RepeatFinish

SpecRepeat == InitScan /\ [][NextRepeat]_vars

---------------------------------------------------------------------------
(* The read alone, one request at a time, over a store that already holds   *)
(* messages: limit and offset each given, on both sides of every bound, or  *)
(* left out.                                                                *)

InitQuery ==
    /\ table \in {rows \in ScanStores : Len(rows) = MaxMsgs}
    /\ clock = LastCreatedAt(table)
    /\ req = [i \in Slots |-> IdleReq]
    /\ returned = {}
    /\ payloads = ServicePayloads
    /\ queries = DefaultQueries
    /\ scan = IdleScan

NextQuery == ReadRequest(1) \/ ReadCount(1) \/ ReadPage(1) \/ Finish(1)

SpecQuery == InitQuery /\ [][NextQuery]_vars

---------------------------------------------------------------------------

Next ==
    \/ \E i \in Slots : CreateRequest(i)
    \/ \E i \in Slots : CreateAdd(i)
    \/ \E i \in Slots : CreateCommit(i)
    \/ \E i \in Slots : CreateRefresh(i)
    \/ \E i \in Slots : ReadRequest(i)
    \/ \E i \in Slots : ReadCount(i)
    \/ \E i \in Slots : ReadPage(i)
    \/ \E i \in Slots : Finish(i)
    \/ Tick

Spec == Init /\ [][Next]_vars

\* The steps a request takes once it has arrived, its end included.
RequestStep(i) ==
    \/ CreateAdd(i) \/ CreateCommit(i) \/ CreateRefresh(i)
    \/ ReadCount(i) \/ ReadPage(i) \/ Finish(i)

\* The session of a request does not depend on what the request carries:
\* one body the validator accepts and one it rejects, one query string on
\* each side of the bounds.
SessionPayloads ==
    {[room_id |-> JStr("a", 1), sender |-> JStr("u", 1), content |-> JStr("x", 1)],
     [room_id |-> JStr("a", 1), sender |-> JStr("u", 1), content |-> JMissing]}

SessionQueries ==
    {[limit |-> Given(l), offset |-> Given(OffsetMin)] : l \in {LimitMin - 1, LimitMin}}

InitSession ==
    /\ table = <<>>
    /\ clock = 1
    /\ req = [i \in Slots |-> IdleReq]
    /\ returned = {}
    /\ payloads = SessionPayloads
    /\ queries = SessionQueries
    /\ scan = IdleScan

\* The event loop resumes every coroutine whose awaited store call has
\* returned or raised, so a request that can take a step takes it.
SpecSession ==
    InitSession /\ [][Next]_vars /\ \A i \in Slots : WF_vars(RequestStep(i))

---------------------------------------------------------------------------
(* Properties *)

\* A read whose parameters were valid and whose two queries both succeeded.
ReadAnswered(i) ==
    /\ req[i].kind = "read" /\ req[i].pc = "done"
    /\ req[i].errors = {} /\ req[i].failed = "none"

\* The room's rows in the order they were inserted.
InsertionOrder(room_id) == SelectSeq(table, LAMBDA r : r.room_id = room_id)

\* C1: a read with valid parameters whose queries succeed answers 404 exactly
\* when the room held no message at its count and offset is 0; in every other
\* case, a never-written room at offset > 0 included, it answers 200 with
\* items, total, limit and offset.
C1_NotFoundIffEmptyAtOffsetZero ==
    \A i \in Slots : ReadAnswered(i) =>
        /\ req[i].limit \in 1..100 /\ req[i].offset >= 0
        /\ req[i].status \in {HTTP_404_NOT_FOUND, HTTP_200_OK}
        /\ req[i].status = HTTP_404_NOT_FOUND
               <=> (req[i].atCount = 0 /\ req[i].offset = 0)
        /\ req[i].status = HTTP_200_OK =>
               /\ req[i].total = req[i].atCount
               /\ Len(req[i].items) <= req[i].limit

C1_Witness ==
    \E i \in Slots :
        /\ ReadAnswered(i) /\ Len(table) > 0
        /\ req[i].atCount = 0 /\ req[i].offset > 0
        /\ req[i].status = HTTP_200_OK /\ req[i].items = <<>>

\* C2: a read of a room that holds messages, at an offset at or past their
\* number, answers 200 with no items and the room's count as total: never an
\* error, never 404.
C2_PastTheEndIsEmptyPage ==
    \A i \in Slots :
        (ReadAnswered(i) /\ req[i].atPage > 0 /\ req[i].offset >= req[i].atPage) =>
            /\ req[i].status = HTTP_200_OK
            /\ req[i].items = <<>>
            /\ req[i].total = req[i].atCount
            /\ req[i].atCount = req[i].atPage => req[i].total = req[i].atPage

C2_Witness ==
    \E i \in Slots :
        /\ ReadAnswered(i)
        /\ req[i].atCount > 0 /\ req[i].atCount = req[i].atPage
        /\ req[i].offset >= req[i].atPage
        /\ req[i].status = HTTP_200_OK /\ req[i].items = <<>>
        /\ req[i].total = req[i].atPage

\* C3: the whole room read in one page (offset 0, limit at least the count) is
\* non-decreasing in created_at, and messages with the same created_at come in
\* ascending id order.
C3_TiesInIdOrder ==
    \A i \in Slots :
        (ReadAnswered(i) /\ req[i].status = HTTP_200_OK
           /\ req[i].offset = 0 /\ req[i].limit >= req[i].atPage) =>
            \A k, l \in 1..Len(req[i].items) : k < l =>
                \/ req[i].items[k].created_at < req[i].items[l].created_at
                \/ /\ req[i].items[k].created_at = req[i].items[l].created_at
                   /\ req[i].items[k].id < req[i].items[l].id

\* C4: a page is the window offset+1 .. offset+limit (cut at the end) of the
\* room's messages in the order they were created.
C4_PageIsCreationOrderWindow ==
    \A i \in Slots :
        (ReadAnswered(i) /\ req[i].status = HTTP_200_OK) =>
            LET rs == SubSeq(InsertionOrder(req[i].room_id), 1, req[i].atPage)
                last == IF req[i].offset + req[i].limit < Len(rs)
                        THEN req[i].offset + req[i].limit ELSE Len(rs)
            IN req[i].items = SubSeq(rs, req[i].offset + 1, last)

\* C5: the pages of a scan, concatenated until the first empty page, hold every
\* message of the room exactly once, in non-decreasing created_at order.
C5_ScanIsComplete ==
    scan.pc = "done" =>
        LET rs == InsertionOrder(scan.room_id) IN
        /\ Len(scan.acc) = Len(rs)
        /\ \A k \in 1..Len(rs) :
             Cardinality({l \in 1..Len(scan.acc) : scan.acc[l] = rs[k]}) = 1
        /\ \A k, l \in 1..Len(scan.acc) :
             k < l => scan.acc[k].created_at <= scan.acc[l].created_at

\* C6: the total of a read is the number of messages stored for the room when
\* it was counted, whatever limit and offset are and however many items the
\* page holds.
C6_TotalIsRoomCount ==
    \A i \in Slots :
        /\ (req[i].kind = "read" /\ req[i].pc = "page") =>
               req[i].total = req[i].atCount
        /\ ReadAnswered(i) =>
               /\ req[i].total = req[i].atCount
               /\ req[i].total <= Len(InsertionOrder(req[i].room_id))

C6_Witness ==
    \E i \in Slots :
        /\ ReadAnswered(i) /\ req[i].status = HTTP_200_OK
        /\ req[i].total = 2 /\ req[i].limit = 1 /\ Len(req[i].items) = 1

\* C7: a create that answered 500 has left no message in the store, whichever
\* of add, commit and refresh failed.
C7_FailedCreateStoresNothing ==
    \A i \in Slots :
        (req[i].kind = "create" /\ req[i].pc = "done"
           /\ req[i].status = HTTP_500_INTERNAL_SERVER_ERROR) =>
            ~ \E k \in 1..Len(table) : table[k].id = req[i].message.id

\* C8: a read that starts after a create for its room has answered 201 counts
\* that message in total and has it in the rows its page is cut from: the
\* message is in the page whenever the page covers the whole room, and at its
\* own place in the page when the created_at values of the room are distinct.
C8_ReadYourWrites ==
    \A i \in Slots : ReadAnswered(i) =>
        \A id \in req[i].mustSee :
            LET rs == InsertionOrder(req[i].room_id)
                pos == CHOOSE k \in 1..Len(rs) : rs[k].id = id
                seen == SubSeq(rs, 1, req[i].atPage)
                distinct == \A k, l \in 1..Len(seen) :
                               k # l => seen[k].created_at # seen[l].created_at
            IN /\ \E k \in 1..Len(rs) : rs[k].id = id
               /\ pos <= req[i].total
               /\ pos <= req[i].atPage
               /\ req[i].status = HTTP_200_OK
               /\ (req[i].offset = 0 /\ req[i].limit >= req[i].atPage) =>
                      \E k \in 1..Len(req[i].items) : req[i].items[k].id = id
               /\ (distinct /\ req[i].offset < pos
                     /\ pos <= req[i].offset + req[i].limit) =>
                      req[i].items[pos - req[i].offset] = rs[pos]

C8_Witness ==
    \E i \in Slots :
        /\ ReadAnswered(i) /\ req[i].status = HTTP_200_OK
        /\ \E id \in req[i].mustSee :
             \E k \in 1..Len(req[i].items) : req[i].items[k].id = id

\* What the specification asks of a body: three strings of the stated lengths.
IsStringOfLength(v, lo, hi) == v.t = "string" /\ lo <= v.n /\ v.n <= hi

SpecAccepts(data) ==
    /\ IsStringOfLength(data.room_id, 1, 100)
    /\ IsStringOfLength(data.sender, 1, 100)
    /\ IsStringOfLength(data.content, 0, 5000)

\* C9: the validator lets a body through to the endpoint exactly when room_id
\* and sender are strings of 1..100 characters and content is a string of
\* 0..5000 characters, the empty one included; every other body, with a field
\* missing or not a string, is answered 422.
C9_ValidatorAcceptsIff ==
    \A i \in Slots : req[i].kind = "create" =>
        /\ SpecAccepts(req[i].data) <=> req[i].pc = "add"
        /\ ~SpecAccepts(req[i].data)
               <=> (req[i].pc = "done" /\ req[i].status = HTTP_422_UNPROCESSABLE)

C9_Witness ==
    \E i \in Slots :
        /\ req[i].kind = "create" /\ req[i].pc = "add"
        /\ req[i].data.content = EmptyStr
        /\ req[i].data.room_id.n = 100 /\ req[i].data.sender.n = 1

\* C10: the step that rejects a body with 422 leaves the store as it was, a
\* rejected request does nothing afterwards but end, and no row of the store
\* ever holds a field the validator rejects.
C10_RejectedNeverStored ==
    [][ /\ \A i \in Slots :
             (req'[i].kind = "create" /\ req'[i].status = HTTP_422_UNPROCESSABLE
                /\ req'[i] # req[i]) =>
                 /\ req[i].pc = "idle"
                 /\ table' = table
        /\ \A i \in Slots :
             (req[i].kind = "create" /\ req[i].status = HTTP_422_UNPROCESSABLE
                /\ req'[i] # req[i]) =>
                 /\ req'[i] = IdleReq
                 /\ table' = table
        /\ \A k \in 1..Len(table') :
             SpecAccepts([room_id |-> table'[k].room_id, sender |-> table'[k].sender,
                          content |-> table'[k].content]) ]_vars

C10_Witness ==
    \E i \in Slots :
        /\ req[i].kind = "create" /\ req[i].pc = "done"
        /\ req[i].status = HTTP_422_UNPROCESSABLE
        /\ Len(table) > 0

---------------------------------------------------------------------------
\* C11: a read whose limit lies outside [LimitMin, LimitMax] or whose offset
\* is below OffsetMin is answered 422 in the step that takes the request,
\* so it never reaches the count or the page query; every other read is
\* taken on to the count query, and a parameter the client left out has
\* its default (limit 20, offset 0) in the request and in the response.
\* (A read answered 500 keeps no parameters and is left out.)
InvalidQuery(r) == r.limit < LimitMin \/ r.limit > LimitMax \/ r.offset < OffsetMin

C11_InvalidQueryRejectedDefaultsApplied ==
    [][\A i \in Slots :
         LET r == req'[i] IN
         (r.kind = "read" /\ r.pc # "idle" /\ r.failed = "none") =>
            /\ InvalidQuery(r) =>
                  /\ r.pc = "done" /\ r.status = HTTP_422_UNPROCESSABLE
                  /\ r.total = 0 /\ r.items = <<>>
                  /\ req[i] = r \/ req[i].pc = "idle"
            /\ ~InvalidQuery(r) =>
                  /\ r.status # HTTP_422_UNPROCESSABLE
                  /\ req[i].pc = "idle" => r.pc = "count"
            /\ ~r.limitGiven => r.limit = LimitDefault
            /\ ~r.offsetGiven => r.offset = OffsetDefault]_vars

C11_Witness ==
    /\ req[1].kind = "read" /\ req[1].pc = "done" /\ req[1].status = HTTP_200_OK
    /\ ~req[1].limitGiven /\ ~req[1].offsetGiven
    /\ req[1].limit = LimitDefault /\ req[1].offset = OffsetDefault
    /\ Len(req[1].items) = MaxMsgs

\* C12: every step leaves the table as it was or appends exactly one row to
\* it, and a row is appended only by the commit of a create, with the fields
\* of that create's message and an id no stored row has; rows already in the
\* table are never changed, moved or removed.
C12_AppendOnly ==
    [][\/ table' = table
       \/ /\ Len(table') = Len(table) + 1
          /\ SubSeq(table', 1, Len(table)) = table
          /\ \E i \in Slots :
               LET row == table'[Len(table')] IN
               /\ req[i].kind = "create" /\ req[i].pc = "commit"
               /\ req'[i].pc = "refresh"
               /\ row.room_id = req[i].data.room_id
               /\ row.sender = req[i].data.sender
               /\ row.content = req[i].data.content
               /\ \A k \in 1..Len(table) : table[k].id # row.id]_vars

C12_Witness ==
    /\ Len(table) = MaxMsgs
    /\ \E i \in Slots : req[i].kind = "create" /\ req[i].failed = "commit"
    /\ \E i \in Slots : ReadAnswered(i) /\ req[i].status = HTTP_200_OK

\* C13: the ids of the stored rows are pairwise distinct and grow in the
\* order the rows were committed, and two creates in flight at the same time
\* never hold the same id.
C13_IdsDistinctAndIncreasing ==
    /\ \A k, l \in 1..Len(table) : k < l => table[k].id < table[l].id
    /\ \A i, j \in Slots :
         (/\ i # j
          /\ req[i].kind = "create" /\ req[j].kind = "create"
          /\ req[i].message.id # 0 /\ req[j].message.id # 0)
         => req[i].message.id # req[j].message.id

C13_Witness ==
    /\ Len(table) = 2
    /\ req[1].kind = "create" /\ req[1].pc = "refresh"
    /\ req[2].kind = "create" /\ req[2].pc = "refresh"
    /\ req[2].message.id < req[1].message.id

\* C14: a read's total counts the rows of its room only and its items are
\* rows of its room only; a step that stores a row of one room leaves the
\* count and every possible page of every other room as they were.
RoomScoped ==
    \A i \in Slots :
        ReadAnswered(i) =>
            /\ req[i].total = req[i].atCount
            /\ \A k \in 1..Len(req[i].items) :
                 req[i].items[k].room_id = req[i].room_id

C14_RoomScoping ==
    [][/\ RoomScoped'
       /\ \A room_id \in ReadRooms :
            (table' # table /\ table'[Len(table')].room_id # room_id) =>
               /\ CountQuery(table', room_id) = CountQuery(table, room_id)
               /\ \A limit \in LimitMin..(MaxMsgs + 1), offset \in OffsetMin..MaxMsgs :
                    PageQuery(table', room_id, limit, offset)
                        = PageQuery(table, room_id, limit, offset)]_vars

C14_Witness ==
    /\ Len(table) = 2
    /\ table[1].room_id # table[2].room_id
    /\ \E i \in Slots :
         /\ ReadAnswered(i) /\ req[i].status = HTTP_200_OK
         /\ req[i].room_id = table[1].room_id
         /\ req[i].atCount = 1 /\ req[i].atPage = 1
         /\ Len(req[i].items) = 1

\* C15: a request in which a store operation failed is answered 500, never
\* 200, 201 or 404, carries no record and no items, and its detail is the
\* fixed text of its endpoint, whatever the storage error was.
C15_StorageFailureIs500 ==
    \A i \in Slots :
        req[i].failed # "none" =>
            /\ req[i].pc = "done"
            /\ req[i].status = HTTP_500_INTERNAL_SERVER_ERROR
            /\ req[i].record = NoMessage /\ req[i].items = <<>>
            /\ req[i].detail = (IF req[i].kind = "create"
                                THEN "Failed to create message"
                                ELSE "Failed to retrieve messages")

C15_Witness ==
    /\ req[1].kind = "create" /\ req[1].failed = "refresh"
    /\ req[1].status = HTTP_500_INTERNAL_SERVER_ERROR
    /\ req[1].logs[1].error = "OperationalError"
    /\ req[2].kind = "read" /\ req[2].failed = "page"
    /\ req[2].status = HTTP_500_INTERNAL_SERVER_ERROR
    /\ req[2].logs[1].error = "InterfaceError"

\* C16: two page queries with the same room, limit and offset, with no
\* write between them, return the same sequence of messages, rows sharing a
\* created_at included.
C16_RepeatedPageIdentical ==
    scan.pc = "compared" => scan.again = scan.acc

\* C17: a create answered 201 returns room_id, sender and content as they
\* were submitted, with the id and created_at the store assigned; the
\* returned record is the stored row of that id, and every read that returns
\* a message of that id returns the same record.
C17_CreateReturnsStoredRecord ==
    \A i \in Slots :
        (req[i].kind = "create" /\ req[i].status = HTTP_201_CREATED) =>
            /\ req[i].record.room_id = req[i].data.room_id
            /\ req[i].record.sender = req[i].data.sender
            /\ req[i].record.content = req[i].data.content
            /\ req[i].record.id >= 1 /\ req[i].record.created_at >= 1
            /\ \E k \in 1..Len(table) :
                 /\ MessageRead(table[k]) = req[i].record
                 /\ \A l \in 1..Len(table) : table[l].id = table[k].id => l = k
            /\ \A j \in Slots :
                 ReadAnswered(j) =>
                    \A k \in 1..Len(req[j].items) :
                        req[j].items[k].id = req[i].record.id
                            => req[j].items[k] = req[i].record

C17_Witness ==
    /\ Len(table) = 2
    /\ req[1].kind = "create" /\ req[1].status = HTTP_201_CREATED
    /\ req[1].record.id = 2 /\ req[1].record.created_at = MaxClock
    /\ req[1].record.content.n = 1
    /\ ReadAnswered(2) /\ Len(req[2].items) = 2
    /\ req[2].items[2] = req[1].record

\* C18: a request in which a store operation failed has made each of its
\* store calls once, and has written exactly one ERROR line to the log, which
\* names the operation and carries the room of the request.
ErrorLines(r) == SelectSeq(r.logs, LAMBDA e : e.level = "ERROR")

C18_OneErrorLineWithOperationAndRoom ==
    \A i \in Slots :
        req[i].failed # "none" =>
            /\ \A k, l \in 1..Len(req[i].ops) :
                 req[i].ops[k] = req[i].ops[l] => k = l
            /\ Len(ErrorLines(req[i])) = 1
            /\ ErrorLines(req[i])[1].msg =
                 (IF req[i].kind = "create" THEN "Database error creating message"
                  ELSE "Database error retrieving messages")
            /\ "room_id" \in ErrorLines(req[i])[1].keys
            /\ ErrorLines(req[i])[1].room_id = req[i].room_id

\* C20: every answered read looks as if both of its queries saw one state of
\* the store: a 200 answer has Len(items) = min(limit, max(0, total -
\* offset)), and a 404 is given only when the page query found no message.
C20_ReadIsOneSnapshot ==
    \A i \in Slots :
        ReadAnswered(i) =>
            /\ req[i].status = HTTP_200_OK =>
                 Len(req[i].items) =
                    Min(req[i].limit,
                        IF req[i].total > req[i].offset
                        THEN req[i].total - req[i].offset ELSE 0)
            /\ req[i].status = HTTP_404_NOT_FOUND => req[i].found = 0

\* C19: a slot holds an open session exactly while it serves a request, one
\* session for each request, and every open session is eventually closed,
\* whether the request ends with 200, 201, 404, 422 or 500.
C19_SessionsEventuallyClosed ==
    /\ [](\A i \in Slots : (req[i].session = "open") <=> (req[i].pc # "idle"))
    /\ \A i \in Slots : (req[i].session = "open") ~> (req[i].session = "closed")

C19_Witness ==
    /\ req[1].pc = "done" /\ req[1].status = HTTP_500_INTERNAL_SERVER_ERROR
    /\ req[1].session = "open"
    /\ req[2].pc = "done" /\ req[2].status = HTTP_404_NOT_FOUND
    /\ req[2].session = "open"


=============================================================================
